---- MODULE Spec2Model ----
(***************************************************************************)
(* Datapath of the raw Ethernet transport (RawTransport): tx_burst,        *)
(* tx_flush, rx_burst and post_recvs of                                    *)
(* src/transport_impl/raw/raw_transport_datapath.cc.                       *)
(*                                                                         *)
(* A pointer &send_wr[j] is modelled by the index j, nullptr by NULL.      *)
(* The hardware (ibv_post_send, ibv_poll_cq, ibv_post_recv, recv_burst,    *)
(* the NIC's progress counter) is the environment: its return codes and    *)
(* its progress are chosen nondeterministically, and what it was handed    *)
(* at a submission is recorded in the hw_* variables.                      *)
(***************************************************************************)
EXTENDS Integers, Sequences, FiniteSets, TLC

(***************************************************************************)
(* Sizes of the model.  The transport's configuration constants are        *)
(* declared in raw_transport.h; they are scaled down here.                 *)
(***************************************************************************)
kPostlist == 2
kMaxDataPerPkt == 300
MaxInlineCfg == 42
kNumRxRingEntries == 5
kRecvCQDepth == 4
kStridesPerWQE == 3
kRQDepth == 4
kRecvSlack == 2
MaxRecvsToPost == 7

(* Sizes of the wire headers and of the packet header region. *)
kSizeofEthHdr == 14
kSizeofIpv4Hdr == 20
kSizeofUdpHdr == 8
kInetHdrsTotSize == kSizeofEthHdr + kSizeofIpv4Hdr + kSizeofUdpHdr
hdr_copy_sz == kInetHdrsTotSize - 2
kSizeofPktHdr == kInetHdrsTotSize + 14
MLX5_ETH_INLINE_HEADER_SIZE == 18

kMagicWrIDForFastRecv == 3185
use_fast_recv_Off == FALSE

(* Line 144 *)
use_fast_recv == TRUE

NULL == 0 - 1
Min(a, b) == IF a < b THEN a ELSE b

VARIABLES
  (* build and construction-time configuration *)
  NDEBUG,          \* TRUE in a build where assert() is compiled out
  kTesting,        \* test build
  kMaxInline,      \* inline-send byte threshold
  kDumb,           \* TRUE: emulated polling + striding receive buffers
  (* control *)
  pc,              \* "idle", "tx_post", "tx_ret", "exited", "aborted"
  last_op,         \* the operation that ran last
  (* tx_burst *)
  send_wr,         \* send_wr[i] = [next, send_flags, num_sge]
  send_sgl,        \* send_sgl[i] = <<length of sgl[0], length of sgl[1]>>
  pkthdr,          \* pkthdr[i]: the header region send_sgl[i][0] points at
  tx_burst_arr,    \* arguments of the tx_burst call in progress / last made
  num_pkts,
  hw_send_list,    \* the list the hardware walked at the last ibv_post_send
  hw_send_posts,   \* ibv_post_send calls made by the current tx_burst call
  send_ret,        \* return code of the last ibv_post_send
  (* rx_burst *)
  recv_head,       \* head index of the receive ring
  recv_backlog,    \* completions seen but not yet returned (emulated mode)
  prev_snapshot,   \* the snapshot stored by the last accepted poll
  cqe_idx,         \* index of the counter slot polled next
  nic_cnt,         \* the NIC's progress counter, as it reads in memory
  nic_unret,       \* receives completed by the NIC, not yet returned by
                   \* rx_burst (emulated mode)
  rx_ret,          \* return value of the last rx_burst call
  rx_delta,        \* delta computed by the last rx_burst call (emulated mode)
  cq_ready,        \* entries waiting in the receive completion queue
  hw_poll_ret,     \* return value of the last ibv_poll_cq
  (* post_recvs *)
  recvs_to_post,   \* the pending-post counter
  mp_sge_idx,      \* next multi-packet buffer of the pool
  recv_wr,         \* recv_wr[i].next of the receive descriptor ring
  num_recvs,       \* argument of the last post_recvs call
  hw_recv_posts,   \* hardware receive submissions made by the last post_recvs
  hw_recv_wr,      \* what the last hardware receive submission was handed
  recv_ret         \* return code of the last hardware receive submission

cfgVars == <<NDEBUG, kTesting, kMaxInline, kDumb>>
txVars == <<send_wr, send_sgl, pkthdr, tx_burst_arr, num_pkts,
            hw_send_list, hw_send_posts, send_ret>>
rxVars == <<recv_head, recv_backlog, prev_snapshot, cqe_idx, nic_cnt,
            nic_unret, rx_ret, rx_delta, cq_ready, hw_poll_ret>>
prVars == <<recvs_to_post, mp_sge_idx, recv_wr, num_recvs, hw_recv_posts,
            hw_recv_wr, recv_ret>>
vars == <<cfgVars, pc, last_op, txVars, rxVars, prVars>>

(***************************************************************************)
(* Message buffers and burst items                                         *)
(***************************************************************************)
MsgDataSizes == {0, kMaxDataPerPkt + 4}

(* Number of packets of a message of data_size bytes. *)
MsgNumPkts(data_size) ==
  IF data_size = 0 THEN 1
  ELSE (data_size + kMaxDataPerPkt - 1) \div kMaxDataPerPkt

(* MsgBuffer::get_pkt_size<kMaxDataPerPkt>(pkt_idx) *)
get_pkt_size(data_size, pkt_idx) ==
  kSizeofPktHdr + Min(kMaxDataPerPkt, data_size - pkt_idx * kMaxDataPerPkt)

(* The routing-header template of a session: the fields of the 42-byte
   Ethernet/IPv4/UDP header that tx_burst copies. *)
RoutingInfo ==
  [eth |-> 7, tot_len |-> 0, ip_check |-> 0, dst_ip |-> 9,
   udp_len |-> 0, udp_check |-> 0]

(* item.routing_info: the template of the session the item's message
   belongs to; the two messages go to different destinations. *)
routing_info(item) ==
  [RoutingInfo EXCEPT !.dst_ip = IF item.data_size = 0 THEN 9 ELSE 10]

(* Burst items: a control packet of an empty message, and both packets of a
   two-packet message; the drop flag is exercised on one packet of each. *)
TxItems ==
  { [data_size |-> s, pkt_index |-> p, drop |-> d] :
      s \in MsgDataSizes, p \in 0..1, d \in BOOLEAN }
  \ { [data_size |-> kMaxDataPerPkt + 4, pkt_index |-> 0, drop |-> TRUE] }

ValidItem(item) == item.pkt_index < MsgNumPkts(item.data_size)

TxBursts ==
  UNION { { b \in [0..(n - 1) -> TxItems] : \A i \in 0..(n - 1) : ValidItem(b[i]) } :
          n \in 1..kPostlist }

BurstLen(b) == Cardinality(DOMAIN b)

(***************************************************************************)
(* tx_burst                                                                *)
(***************************************************************************)
IBV_SEND_SIGNALED == "SIGNALED"
IBV_SEND_INLINE == "INLINE"

(* 16-bit host-to-network conversion on a little-endian host. *)
htons(x) == ((x % 65536) % 256) * 256 + ((x % 65536) \div 256)

(* The bytes of a 16-bit field in memory order (little-endian host). *)
FieldBytes(f) == <<f % 256, f \div 256>>

(* get_signaled_flag(): the signaling policy; here every send is signaled. *)
get_signaled_flag == {IBV_SEND_SIGNALED}

BuildSgl_NoOffset(old, item) ==
  IF item.pkt_index = 0
    THEN <<get_pkt_size(item.data_size, 0), old[2]>>
    ELSE <<kSizeofPktHdr, Min(kMaxDataPerPkt, item.data_size)>>

(* Lines 25-53: the scatter-gather list of one item, given the entries the
   slot held before. *)
BuildSgl(old, item) ==
  IF item.pkt_index = 0
    THEN <<get_pkt_size(item.data_size, 0), old[2]>>
    ELSE <<kSizeofPktHdr,
           Min(kMaxDataPerPkt,
               item.data_size - item.pkt_index * kMaxDataPerPkt)>>

NumSge(item) == IF item.pkt_index = 0 THEN 1 ELSE 2

(* pkt_size of lines 37 and 51 *)
PktSize(sgl, item) ==
  IF item.pkt_index = 0 THEN sgl[1] ELSE sgl[1] + sgl[2]

InlineFlag_AnyIndex(item, sgl, maxInline) ==
  IF maxInline > 0 /\ sgl[1] <= maxInline + MLX5_ETH_INLINE_HEADER_SIZE
    THEN {IBV_SEND_INLINE} ELSE {}

(* Lines 32-35: the inline flag *)
InlineFlag(item, sgl, maxInline) ==
  IF item.pkt_index = 0 /\ maxInline > 0
     /\ sgl[1] <= maxInline + MLX5_ETH_INLINE_HEADER_SIZE
    THEN {IBV_SEND_INLINE} ELSE {}

StampHdr_HostOrder(old, item, pkt_size, testing) ==
  [routing_info(item) EXCEPT
     !.tot_len = (pkt_size - kSizeofEthHdr) % 65536,
     !.dst_ip = IF testing /\ item.drop THEN 0 ELSE @,
     !.udp_len = (pkt_size - kSizeofEthHdr - kSizeofIpv4Hdr) % 65536,
     !.udp_check = old.udp_check]

StampHdr_DropAlways(old, item, pkt_size, testing) ==
  [routing_info(item) EXCEPT
     !.tot_len = htons(pkt_size - kSizeofEthHdr),
     !.dst_ip = IF item.drop THEN 0 ELSE @,
     !.udp_len = htons(pkt_size - kSizeofEthHdr - kSizeofIpv4Hdr),
     !.udp_check = old.udp_check]

(* Lines 60-71: the header stamped into the packet's header region, old
   being what the region held.  The memcpy copies the first hdr_copy_sz
   bytes of the template: every field but the UDP checksum, the last two
   bytes of the kInetHdrsTotSize. *)
StampHdr(old, item, pkt_size, testing) ==
  [routing_info(item) EXCEPT
     !.tot_len = htons(pkt_size - kSizeofEthHdr),
     !.dst_ip = IF testing /\ item.drop THEN 0 ELSE @,
     !.udp_len = htons(pkt_size - kSizeofEthHdr - kSizeofIpv4Hdr),
     !.udp_check = old.udp_check]

BreakChain_Missing(wr, n) == wr

(* Line 81 *)
BreakChain(wr, n) == [wr EXCEPT ![n - 1].next = NULL]

RestoreChain_Missing(wr, n) == wr

(* Line 91 *)
RestoreChain(wr, n) == [wr EXCEPT ![n - 1].next = n]

(* Line 16: the check made on entry for every i < n *)
ChainCheck(wr, n) == \A i \in 0..(n - 1) : wr[i].next = i + 1

(* The work requests reached from send_wr[from] by following next. *)
RECURSIVE Walk(_, _, _)
Walk(wr, from, fuel) ==
  IF from = NULL \/ from \notin DOMAIN wr \/ fuel = 0 THEN <<>>
  ELSE <<from>> \o Walk(wr, wr[from].next, fuel - 1)

(* Lines 7-81: the loop over the items and the chain breaker. *)
TxBurstBuild(arr) ==
  /\ pc = "idle"
  /\ LET n == BurstLen(arr)
         sgl == [i \in DOMAIN send_sgl |->
                   IF i < n THEN BuildSgl(send_sgl[i], arr[i]) ELSE send_sgl[i]]
     IN
       /\ tx_burst_arr' = arr
       /\ num_pkts' = n
       /\ hw_send_posts' = 0
       /\ last_op' = "tx_burst"
       /\ IF ~NDEBUG /\ ~ChainCheck(send_wr, n)
            THEN /\ pc' = "aborted"
                 /\ UNCHANGED <<send_wr, send_sgl, pkthdr>>
            ELSE /\ pc' = "tx_post"
                 /\ send_sgl' = sgl
                 /\ send_wr' =
                      BreakChain(
                        [i \in DOMAIN send_wr |->
                           IF i < n
                             THEN [send_wr[i] EXCEPT
                                     !.send_flags =
                                        get_signaled_flag \cup
                                        InlineFlag(arr[i], sgl[i], kMaxInline),
                                     !.num_sge = NumSge(arr[i])]
                             ELSE send_wr[i]], n)
                 /\ pkthdr' =
                      [i \in DOMAIN pkthdr |->
                         IF i < n
                           THEN StampHdr(pkthdr[i], arr[i], PktSize(sgl[i], arr[i]),
                                         kTesting)
                           ELSE pkthdr[i]]
  /\ UNCHANGED <<cfgVars, hw_send_list, send_ret, rxVars, prVars>>

(* Line 84: ibv_post_send(qp, &send_wr[0], &bad_wr) *)
TxPostSend(ret) ==
  /\ pc = "tx_post"
  /\ hw_send_list' = Walk(send_wr, 0, kPostlist + 2)
  /\ hw_send_posts' = hw_send_posts + 1
  /\ send_ret' = ret
  /\ pc' = "tx_ret"
  /\ UNCHANGED <<cfgVars, last_op, send_wr, send_sgl, pkthdr,
                 tx_burst_arr, num_pkts, rxVars, prVars>>

TxBurstReturn_Continue ==
  /\ pc = "tx_ret"
  /\ pc' = "idle"
  /\ send_wr' = RestoreChain(send_wr, num_pkts)
  /\ UNCHANGED <<cfgVars, last_op, send_sgl, pkthdr, tx_burst_arr,
                 num_pkts, hw_send_list, hw_send_posts, send_ret,
                 rxVars, prVars>>

(* Lines 85-91: the fatal error or the restored chain *)
TxBurstReturn ==
  /\ pc = "tx_ret"
  /\ IF send_ret # 0
       THEN /\ pc' = IF NDEBUG THEN "exited" ELSE "aborted"
            /\ UNCHANGED send_wr
       ELSE /\ pc' = "idle"
            /\ send_wr' = RestoreChain(send_wr, num_pkts)
  /\ UNCHANGED <<cfgVars, last_op, send_sgl, pkthdr, tx_burst_arr,
                 num_pkts, hw_send_list, hw_send_posts, send_ret,
                 rxVars, prVars>>

TxFlush_Reposts ==
  /\ pc = "idle"
  /\ last_op' = "tx_flush"
  /\ hw_send_list' = Walk(send_wr, 0, kPostlist + 2)
  /\ hw_send_posts' = 1
  /\ UNCHANGED <<cfgVars, pc, send_wr, send_sgl, pkthdr, tx_burst_arr,
                 num_pkts, send_ret, rxVars, prVars>>

(* Line 94: tx_flush has an empty body. *)
TxFlush ==
  /\ pc = "idle"
  /\ last_op' = "tx_flush"
  /\ UNCHANGED <<cfgVars, pc, txVars, rxVars, prVars>>

(***************************************************************************)
(* rx_burst                                                                *)
(***************************************************************************)
(* The cycle of the progress counter: the receive-ring size. *)
kCQESnapshotCycle == kNumRxRingEntries

(* snapshot_cqe(): reads the NIC's progress counter from memory. *)
snapshot_cqe(cnt) == cnt

(* get_cqe_cycle_delta(): forward cyclic distance from prev to cur. *)
get_cqe_cycle_delta(prev, cur) ==
  ((cur - prev) + kCQESnapshotCycle) % kCQESnapshotCycle

RxRefused_NoZeroCheck(delta) == delta >= kNumRxRingEntries

(* Line 101: the poll is refused. *)
RxRefused(delta) == delta = 0 \/ delta >= kNumRxRingEntries

CompsClamped_Unclamped(backlog) == backlog

(* Line 104 *)
CompsClamped(backlog) == IF backlog < kPostlist THEN backlog ELSE kPostlist

AdvanceHead_NoWrap(head, comps) == head + comps

(* Lines 107-118: the head after comps iterations of the loop. *)
RECURSIVE AdvanceHead(_, _)
AdvanceHead(head, comps) ==
  IF comps = 0 THEN head
  ELSE AdvanceHead((head + 1) % kNumRxRingEntries, comps - 1)

(* Line 120 *)
NextCqeIdx(idx) == (idx + 1) % kRecvCQDepth

(* Line 124: ibv_poll_cq(recv_cq, num_entries, recv_wc); the poll succeeds
   (line 125) and reports the entries that are ready, num_entries at most. *)
ibv_poll_cq(ready, num_entries) == IF ready < num_entries THEN ready ELSE num_entries

RxDirectReturn_Postlist(ret) == kPostlist

(* Line 126: the value returned in direct mode. *)
RxDirectReturn(ret) == ret

(* Lines 97-122: emulated (cycle-counter) polling. *)
RxBurstDumb ==
  /\ pc = "idle"
  /\ kDumb
  /\ LET cur_snapshot == snapshot_cqe(nic_cnt)
         delta == get_cqe_cycle_delta(prev_snapshot, cur_snapshot)
         backlog == recv_backlog + delta
         comps_clamped == CompsClamped(backlog)
     IN
       /\ rx_delta' = delta
       /\ IF RxRefused(delta)
            THEN /\ rx_ret' = 0
                 /\ UNCHANGED <<recv_head, recv_backlog, prev_snapshot,
                                cqe_idx, nic_unret>>
            ELSE /\ recv_backlog' = backlog - comps_clamped
                 /\ recv_head' = AdvanceHead(recv_head, comps_clamped)
                 /\ cqe_idx' = NextCqeIdx(cqe_idx)
                 /\ prev_snapshot' = cur_snapshot
                 /\ rx_ret' = comps_clamped
                 /\ nic_unret' = nic_unret - comps_clamped
  /\ last_op' = "rx_burst"
  /\ UNCHANGED <<cfgVars, pc, txVars, prVars, nic_cnt, cq_ready, hw_poll_ret>>

(* Lines 123-127: direct completion-queue polling. *)
RxBurstDirect ==
  /\ pc = "idle"
  /\ ~kDumb
  /\ LET ret == ibv_poll_cq(cq_ready, kPostlist)
     IN
       /\ hw_poll_ret' = ret
       /\ cq_ready' = cq_ready - ret
       /\ rx_ret' = RxDirectReturn(ret)
  /\ last_op' = "rx_burst"
  /\ UNCHANGED <<cfgVars, pc, txVars, prVars, recv_head, recv_backlog,
                 prev_snapshot, cqe_idx, nic_cnt, nic_unret, rx_delta>>

(* The NIC completes d more receives and advances its progress counter.
   Emulated mode: the receives completed and not yet returned by rx_burst
   occupy ring slots, so they stay below the ring size.  Direct mode: the
   NIC appends d entries to the completion queue, of depth kRecvCQDepth. *)
NicReceive(d) ==
  /\ pc = "idle"
  /\ IF kDumb
       THEN /\ nic_unret + d < kNumRxRingEntries
            /\ nic_unret' = nic_unret + d
            /\ UNCHANGED cq_ready
       ELSE /\ cq_ready + d <= kRecvCQDepth
            /\ cq_ready' = cq_ready + d
            /\ UNCHANGED nic_unret
  /\ nic_cnt' = (nic_cnt + d) % kCQESnapshotCycle
  /\ UNCHANGED <<cfgVars, pc, last_op, txVars, prVars, recv_head,
                 recv_backlog, prev_snapshot, cqe_idx, rx_ret, rx_delta,
                 hw_poll_ret>>

(***************************************************************************)
(* post_recvs                                                              *)
(***************************************************************************)
BelowThreshold_Inclusive(dumb, pending) ==
  IF dumb THEN pending <= kStridesPerWQE ELSE pending <= kRecvSlack

(* Line 135 / line 143: below the threshold nothing is posted. *)
BelowThreshold(dumb, pending) ==
  IF dumb THEN pending < kStridesPerWQE ELSE pending < kRecvSlack

NextMpSgeIdx_Stuck(idx) == idx

(* Line 140 *)
NextMpSgeIdx(idx) == (idx + 1) % kRQDepth

AfterStridingPost_Reset(pending) == 0

(* Line 141 *)
AfterStridingPost(pending) == pending - kStridesPerWQE

(* Lines 149-151: the special work request of the fast path. *)
SpecialWr(pending) ==
  [kind |-> "fast", wr_id |-> kMagicWrIDForFastRecv, num_sge |-> pending]

(* Line 137: the multi-packet buffer handed to recv_burst. *)
MpWr(idx) == [kind |-> "mp", sge |-> idx, num |-> 1]

LastWrI_NoWrap(head, pending) == head + (pending - 1)

(* Lines 168-170 *)
LastWrI(head, pending) ==
  IF head + (pending - 1) >= kRQDepth
    THEN head + (pending - 1) - kRQDepth
    ELSE head + (pending - 1)

(* Line 176: the ring with the list terminated at last_wr. *)
BreakRing(ring, last) == [ring EXCEPT ![last].next = NULL]

(* Lines 174 and 184: temp_wr put back into last_wr->next. *)
RestoreRing(ring, broken, last) == [broken EXCEPT ![last].next = ring[last].next]

(* Lines 172-178: the list handed to ibv_post_recv on the normal path. *)
NormalWr(ring, head, pending) ==
  [kind |-> "normal",
   list |-> Walk(BreakRing(ring, LastWrI(head, pending)), head, kRQDepth + 1)]

(* Lines 187-188 *)
HeadAfterNormalPost(head, pending) == (LastWrI(head, pending) + 1) % kRQDepth

(* Lines 130-194, with line 144 setting use_fast_recv to fast.  ret is the
   return code of the hardware submission, if one is made. *)
PostRecvsImpl(n, ret, fast) ==
  /\ pc = "idle"
  /\ n <= kNumRxRingEntries
  /\ recvs_to_post + n <= MaxRecvsToPost
  /\ num_recvs' = n
  /\ last_op' = "post_recvs"
  /\ LET pending == recvs_to_post + n
         last == LastWrI(recv_head, pending)
     IN
       IF BelowThreshold(kDumb, pending)
         THEN /\ recvs_to_post' = pending
              /\ hw_recv_posts' = 0
              /\ ret = 0
              /\ UNCHANGED <<pc, mp_sge_idx, recv_wr, hw_recv_wr, recv_ret,
                             recv_head>>
         ELSE
           /\ hw_recv_posts' = 1
           /\ recv_ret' = ret
           /\ IF kDumb
                THEN /\ hw_recv_wr' = MpWr(mp_sge_idx)
                     /\ UNCHANGED <<recv_head, recv_wr>>
                     /\ IF ret # 0 /\ ~NDEBUG
                          THEN /\ pc' = "aborted"
                               /\ recvs_to_post' = pending
                               /\ UNCHANGED mp_sge_idx
                          ELSE /\ pc' = pc
                               /\ mp_sge_idx' = NextMpSgeIdx(mp_sge_idx)
                               /\ recvs_to_post' = AfterStridingPost(pending)
                ELSE /\ UNCHANGED mp_sge_idx
                     /\ hw_recv_wr' =
                          IF fast THEN SpecialWr(pending)
                          ELSE NormalWr(recv_wr, recv_head, pending)
                     /\ IF ret # 0
                          THEN /\ pc' = "exited"
                               /\ recvs_to_post' = pending
                               /\ recv_wr' = IF fast THEN recv_wr
                                             ELSE BreakRing(recv_wr, last)
                               /\ UNCHANGED recv_head
                          ELSE /\ pc' = pc
                               /\ recvs_to_post' = 0
                               /\ recv_wr' =
                                    IF fast THEN recv_wr
                                    ELSE RestoreRing(recv_wr,
                                           BreakRing(recv_wr, last), last)
                               /\ recv_head' =
                                    IF fast THEN recv_head
                                    ELSE HeadAfterNormalPost(recv_head, pending)
  /\ UNCHANGED <<cfgVars, txVars, recv_backlog, prev_snapshot, cqe_idx,
                 nic_cnt, nic_unret, rx_ret, rx_delta, cq_ready, hw_poll_ret>>

(* Lines 130-194 *)
PostRecvs(n, ret) == PostRecvsImpl(n, ret, use_fast_recv)

(***************************************************************************)
(* Initial state: the transport as its constructor leaves it.              *)
(***************************************************************************)
Init ==
  /\ NDEBUG \in BOOLEAN
  /\ kTesting \in BOOLEAN
  /\ kMaxInline \in {0, MaxInlineCfg}
  /\ kDumb \in BOOLEAN
  /\ pc = "idle"
  /\ last_op = "init"
  /\ send_wr = [i \in 0..kPostlist |->
                  [next |-> IF i < kPostlist THEN i + 1 ELSE NULL,
                   send_flags |-> {}, num_sge |-> 1]]
  /\ send_sgl = [i \in 0..kPostlist |-> <<0, 0>>]
  /\ pkthdr = [i \in 0..kPostlist |-> RoutingInfo]
  /\ tx_burst_arr = <<>>
  /\ num_pkts = 0
  /\ hw_send_list = <<>>
  /\ hw_send_posts = 0
  /\ send_ret = 0
  /\ recv_head = 0
  /\ recv_backlog = 0
  /\ prev_snapshot = 0
  /\ cqe_idx = 0
  /\ nic_cnt = 0
  /\ nic_unret = 0
  /\ rx_ret = 0
  /\ rx_delta = 0
  /\ cq_ready = 0
  /\ hw_poll_ret = 0
  /\ recvs_to_post = 0
  /\ mp_sge_idx = 0
  /\ recv_wr = [i \in 0..(kRQDepth - 1) |-> [next |-> (i + 1) % kRQDepth]]
  /\ num_recvs = 0
  /\ hw_recv_posts = 0
  /\ hw_recv_wr = [kind |-> "none"]
  /\ recv_ret = 0

NextTx ==
  \/ \E arr \in TxBursts : TxBurstBuild(arr)
  \/ \E ret \in {0, 1} : TxPostSend(ret)
  \/ TxBurstReturn

(* tx_burst reads neither the polling mode nor the receive state. *)
InitTx == Init /\ kDumb = FALSE

SpecTx == InitTx /\ [][NextTx]_vars

(* rx_burst and post_recvs read neither the test-build flag nor the inline
   threshold. *)
InitRx == Init /\ kTesting = FALSE /\ kMaxInline = 0

NextRx ==
  \/ \E d \in 1..(kNumRxRingEntries - 1) : NicReceive(d)
  \/ RxBurstDumb
  \/ RxBurstDirect

SpecRx == InitRx /\ [][NextRx]_vars

(* rx_burst is called again and again; the NIC may stop at any time. *)
SpecRxFair ==
  InitRx /\ [][NextRx]_vars /\ WF_vars(RxBurstDumb) /\ WF_vars(RxBurstDirect)

NextRecvs ==
  \E n \in 0..kNumRxRingEntries, ret \in {0, 1} : PostRecvs(n, ret)

SpecRecvs == InitRx /\ [][NextRecvs]_vars

(* post_recvs as built with use_fast_recv set to false on line 144, which
   is the build in which lines 165-190 run.  The ring has kRQDepth
   descriptors, so no more than kRQDepth receives are ever consumed and not
   yet posted. *)
PostRecvsCompat(n, ret) ==
  /\ ~kDumb
  /\ recvs_to_post + n <= kRQDepth
  /\ PostRecvsImpl(n, ret, FALSE)

InitCompat == InitRx /\ kDumb = FALSE

NextRecvsCompat ==
  \E n \in 0..kRQDepth, ret \in {0, 1} : PostRecvsCompat(n, ret)

SpecRecvsCompat == InitCompat /\ [][NextRecvsCompat]_vars

(* All four operations of one transport instance, driven by its single
   thread in any order, on a reduced set of inputs: bursts of control
   packets, NIC progress of one more than a batch, and receive counts of 1
   and of a whole stride. *)
CtlBursts ==
  { b \in TxBursts :
      \A i \in DOMAIN b : b[i].data_size = 0 /\ ~b[i].drop }

Next ==
  \/ \E arr \in CtlBursts : TxBurstBuild(arr)
  \/ \E ret \in {0, 1} : TxPostSend(ret)
  \/ TxBurstReturn
  \/ TxFlush
  \/ NicReceive(kPostlist + 1)
  \/ RxBurstDumb
  \/ RxBurstDirect
  \/ \E n \in {1, kStridesPerWQE}, ret \in {0, 1} : PostRecvs(n, ret)

Spec == InitRx /\ [][Next]_vars

(***************************************************************************)
(* Properties                                                              *)
(***************************************************************************)
(* The sequence <<0, 1, ..., n-1>> *)
UpTo(n) == [k \in 1..n |-> k - 1]

(* The value of a 16-bit field whose bytes in memory are b, read in network
   byte order. *)
NetValue(b) == b[1] * 256 + b[2]

(* Sum of the lengths of the scatter-gather entries descriptor i uses. *)
SumSge(i) ==
  IF send_wr[i].num_sge = 1 THEN send_sgl[i][1]
  ELSE send_sgl[i][1] + send_sgl[i][2]

(* A step made by rx_burst, by post_recvs. *)
RxBurstStep == last_op' = "rx_burst" /\ nic_cnt' = nic_cnt
PostRecvsStep ==
  last_op' = "post_recvs" /\ nic_cnt' = nic_cnt /\ cq_ready' = cq_ready

(* C1: whenever tx_burst has returned, send_wr[i].next refers to
   send_wr[i + 1] for every i below the capacity (kPostlist + 1) minus one,
   and the check made on entry of tx_burst never fails. *)
C1_ChainIntact ==
  /\ pc = "idle" => \A i \in 0..(kPostlist - 1) : send_wr[i].next = i + 1
  /\ ~(pc = "aborted" /\ last_op = "tx_burst" /\ hw_send_posts = 0)

C1_Witness ==
  /\ pc = "idle" /\ last_op = "tx_burst" /\ send_ret = 0
  /\ num_pkts = kPostlist /\ hw_send_list = UpTo(kPostlist)
  /\ send_wr[kPostlist - 1].next = kPostlist

(* C2: a tx_burst call makes exactly one submission, in the order
   terminate, submit, restore: the list submitted is send_wr[0..n-1] in
   index order with send_wr[n-1].next null, and the link of send_wr[n-1] is
   restored only after the submission returned 0. *)
C2_TerminateSubmitRestore ==
  /\ pc = "tx_post" =>
       hw_send_posts = 0 /\ send_wr[num_pkts - 1].next = NULL
  /\ pc = "tx_ret" =>
       /\ hw_send_posts = 1
       /\ hw_send_list = UpTo(num_pkts)
       /\ send_wr[num_pkts - 1].next = NULL
  /\ (pc = "idle" /\ last_op = "tx_burst") =>
       /\ hw_send_posts = 1
       /\ hw_send_list = UpTo(num_pkts)
       /\ send_ret = 0
       /\ send_wr[num_pkts - 1].next = num_pkts
  /\ (last_op = "tx_burst" /\ send_wr[num_pkts - 1].next # NULL) =>
       pc = "idle" /\ send_ret = 0 /\ hw_send_posts = 1

C2_Witness ==
  /\ pc = "tx_ret" /\ num_pkts = 1 /\ kPostlist > 1
  /\ hw_send_list = <<0>> /\ send_wr[0].next = NULL

(* C3: after tx_burst has built item i, send_wr[i] has 1 entry when the
   packet index is 0 (length: header plus data of packet 0) and 2 entries
   otherwise (header size; min(max data per packet, data size - index * max
   data per packet)), and the packet size stamped is the sum of the entry
   lengths, whatever the slot held before. *)
C3_SglShape ==
  last_op = "tx_burst" =>
    \A i \in 0..(num_pkts - 1) :
      LET item == tx_burst_arr[i] IN
        /\ IF item.pkt_index = 0
             THEN /\ send_wr[i].num_sge = 1
                  /\ send_sgl[i][1] =
                       kSizeofPktHdr + Min(kMaxDataPerPkt, item.data_size)
             ELSE /\ send_wr[i].num_sge = 2
                  /\ send_sgl[i][1] = kSizeofPktHdr
                  /\ send_sgl[i][2] =
                       Min(kMaxDataPerPkt,
                           item.data_size - item.pkt_index * kMaxDataPerPkt)
        /\ NetValue(FieldBytes(pkthdr[i].tot_len)) + kSizeofEthHdr = SumSge(i)

C3_Witness ==
  /\ last_op = "tx_burst" /\ num_pkts = kPostlist
  /\ tx_burst_arr[0].pkt_index = 0 /\ send_wr[0].num_sge = 1
  /\ send_sgl[0][2] > 0
  /\ tx_burst_arr[1].pkt_index = 1 /\ send_wr[1].num_sge = 2

(* C4: for every packet built, of size P (the sum of its entry lengths),
   the IPv4 total-length field holds P - 14 and the UDP length field holds
   P - 14 - 20, each as a 16-bit value in network byte order. *)
C4_LengthFields ==
  last_op = "tx_burst" =>
    \A i \in 0..(num_pkts - 1) :
      LET P == SumSge(i) IN
        /\ pkthdr[i].tot_len \in 0..65535
        /\ pkthdr[i].udp_len \in 0..65535
        /\ FieldBytes(pkthdr[i].tot_len) = <<(P - 14) \div 256, (P - 14) % 256>>
        /\ FieldBytes(pkthdr[i].udp_len) =
             <<(P - 14 - 20) \div 256, (P - 14 - 20) % 256>>

C4_Witness ==
  /\ last_op = "tx_burst" /\ num_pkts = 2
  /\ SumSge(0) = 356 /\ FieldBytes(pkthdr[0].tot_len) = <<1, 86>>
  /\ FieldBytes(pkthdr[0].udp_len) = <<1, 66>>
  /\ SumSge(1) = 60 /\ FieldBytes(pkthdr[1].tot_len) = <<0, 46>>
  /\ FieldBytes(pkthdr[1].udp_len) = <<0, 26>>

(* C5: in emulated mode, an rx_burst call that finds a cycle delta of 0, or
   of the ring size or more, returns 0 and leaves the receive head, the
   backlog, the previous snapshot and the counter-slot index unchanged. *)
C5_RefusedPollChangesNothing ==
  [][ (kDumb /\ RxBurstStep
       /\ LET d == (nic_cnt - prev_snapshot
                    + kNumRxRingEntries) % kNumRxRingEntries
          IN d = 0 \/ d >= kNumRxRingEntries)
      => /\ rx_ret' = 0
         /\ UNCHANGED <<recv_head, recv_backlog, prev_snapshot, cqe_idx>> ]_vars

C5_Witness ==
  /\ kDumb /\ last_op = "rx_burst" /\ rx_delta = 0 /\ rx_ret = 0
  /\ recv_backlog > 0 /\ prev_snapshot = nic_cnt /\ nic_unret = recv_backlog

(* C6: in emulated mode, an rx_burst call that finds a delta d with
   0 < d < ring size and a backlog b returns k = min(b + d, max batch size),
   leaves the backlog at b + d - k, the head at (head + k) mod ring size,
   the counter-slot index advanced by one modulo the completion-queue depth,
   and the current snapshot stored as the previous one. *)
C6_AcceptedPoll ==
  [][ LET d == (nic_cnt - prev_snapshot
                + kNumRxRingEntries) % kNumRxRingEntries
          k == Min(recv_backlog + d, kPostlist)
      IN (kDumb /\ RxBurstStep /\ 0 < d /\ d < kNumRxRingEntries)
         => /\ rx_ret' = k
            /\ recv_backlog' = recv_backlog + d - k
            /\ recv_head' = (recv_head + k) % kNumRxRingEntries
            /\ cqe_idx' = (cqe_idx + 1) % kRecvCQDepth
            /\ prev_snapshot' = nic_cnt ]_vars

C6_Witness ==
  /\ kDumb /\ last_op = "rx_burst" /\ rx_delta > 0 /\ rx_ret = kPostlist
  /\ recv_backlog > 0 /\ cqe_idx = 2

(* C7: in emulated mode no completion is lost: if rx_burst is called again
   and again then, once the NIC's counter has stopped advancing, every
   receive the NIC completed is eventually returned and the backlog
   eventually returns to 0. *)
C7_NoCompletionLost ==
  (<>[][nic_cnt' = nic_cnt]_vars)
    => <>[](kDumb => (nic_unret = 0 /\ recv_backlog = 0))

(* C8: every rx_burst call returns a count in 0..max batch size; in direct
   mode the count is the one the completion-queue poll reported, and
   rx_burst changes none of the transport's counters. *)
C8_RxBurstCount ==
  /\ [](rx_ret \in 0..kPostlist)
  /\ []((~kDumb /\ last_op = "rx_burst") => rx_ret = hw_poll_ret)
  /\ [][ (~kDumb /\ RxBurstStep)
         => UNCHANGED <<recv_head, recv_backlog, prev_snapshot, cqe_idx,
                        recvs_to_post>> ]_vars

C8_Witness ==
  /\ ~kDumb /\ last_op = "rx_burst" /\ rx_ret = kPostlist
  /\ hw_poll_ret = kPostlist /\ cq_ready > 0

(* C9: a post_recvs call that leaves the accumulated count below the
   threshold posts nothing and only adds num_recvs to the pending counter;
   a call that reaches the threshold makes exactly one hardware post and,
   when it returns, leaves the counter at 0 (direct mode) or at accumulated
   minus one stride unit (striding mode). *)
C9_ThresholdPosting ==
  [][ LET acc == recvs_to_post + num_recvs'
          thr == IF kDumb THEN kStridesPerWQE ELSE kRecvSlack
      IN PostRecvsStep =>
           IF acc < thr
             THEN /\ hw_recv_posts' = 0
                  /\ recvs_to_post' = acc
                  /\ pc' = "idle"
                  /\ UNCHANGED <<hw_recv_wr, recv_ret, mp_sge_idx, recv_head,
                                 recv_wr>>
             ELSE /\ hw_recv_posts' = 1
                  /\ pc' = "idle" =>
                       recvs_to_post' = IF kDumb THEN acc - kStridesPerWQE ELSE 0
    ]_vars

C9_Witness ==
  /\ kDumb /\ pc = "idle" /\ last_op = "post_recvs" /\ hw_recv_posts = 1
  /\ recv_ret = 0 /\ recvs_to_post = 1 /\ num_recvs = 2 /\ mp_sge_idx = 1

(* C10: in every receive-posting strategy a nonzero return code of the
   hardware receive submission terminates the process, and post_recvs does
   not go on to advance the buffer index or the head, nor to decrement or
   reset the pending counter. *)
C10_RecvPostFailureFatal ==
  [][ (PostRecvsStep /\ hw_recv_posts' = 1 /\ recv_ret' # 0)
      => /\ pc' \in {"exited", "aborted"}
         /\ UNCHANGED <<mp_sge_idx, recv_head>>
         /\ recvs_to_post' = recvs_to_post + num_recvs' ]_vars

(* C11: when ibv_post_send returns a nonzero code, tx_burst terminates the
   process: the submission is not made again, the call does not return, and
   no step of tx_burst, tx_flush, rx_burst or post_recvs follows. *)
C11_SendFailureFatal ==
  [][ /\ (pc = "tx_ret" /\ send_ret # 0)
           => /\ pc' \in {"exited", "aborted"}
              /\ UNCHANGED <<last_op, txVars, rxVars, prVars>>
      /\ (pc \in {"exited", "aborted"}) => UNCHANGED vars ]_vars

C11_Witness ==
  /\ pc \in {"exited", "aborted"} /\ last_op = "tx_burst"
  /\ send_ret # 0 /\ hw_send_posts = 1
  /\ send_wr[num_pkts - 1].next = NULL

(* C12 as stated: after tx_burst has processed item i, send_wr[i] carries
   the inline flag if and only if the packet index is 0, the inline
   threshold kMaxInline is above 0 and the packet size is at most the inline
   threshold. *)
C12_InlineIffWithinThreshold ==
  last_op = "tx_burst" =>
    \A i \in 0..(num_pkts - 1) :
      (IBV_SEND_INLINE \in send_wr[i].send_flags)
        <=> /\ tx_burst_arr[i].pkt_index = 0
            /\ kMaxInline > 0
            /\ SumSge(i) <= kMaxInline

(* C12 as amended: after tx_burst has processed item i, send_wr[i] carries
   the inline flag if and only if the packet index is 0, kMaxInline is above
   0 and the packet size is at most kMaxInline plus the size of the inline
   Ethernet header segment; so a continuation packet is never flagged, and a
   flag set by an earlier burst does not survive the reuse of the slot. *)
C12_InlineIffWithinThresholdPlusHeader ==
  last_op = "tx_burst" =>
    \A i \in 0..(num_pkts - 1) :
      (IBV_SEND_INLINE \in send_wr[i].send_flags)
        <=> /\ tx_burst_arr[i].pkt_index = 0
            /\ kMaxInline > 0
            /\ SumSge(i) <= kMaxInline + 18

C12_Witness ==
  /\ last_op = "tx_burst" /\ kMaxInline > 0 /\ num_pkts = 2
  /\ tx_burst_arr[0].pkt_index = 1
  /\ IBV_SEND_INLINE \notin send_wr[0].send_flags
  /\ SumSge(0) <= kMaxInline + 18
  /\ IBV_SEND_INLINE \in send_wr[1].send_flags
  /\ SumSge(1) > kMaxInline

(* C13: the header stamped for item i equals the item's routing-header
   template in every field but the IPv4 total length and the UDP length; the
   destination address is zeroed if and only if the build is a test build
   and the item's drop flag is set, and equals the template's otherwise; the
   checksum fields read zero. *)
C13_HeaderFromTemplate ==
  last_op = "tx_burst" =>
    \A i \in 0..(num_pkts - 1) :
      LET item == tx_burst_arr[i]
          tmpl == routing_info(item)
      IN /\ pkthdr[i].eth = tmpl.eth
         /\ pkthdr[i].ip_check = tmpl.ip_check
         /\ pkthdr[i].udp_check = tmpl.udp_check
         /\ (pkthdr[i].dst_ip = 0) <=> (kTesting /\ item.drop)
         /\ ~(kTesting /\ item.drop) => pkthdr[i].dst_ip = tmpl.dst_ip
         /\ pkthdr[i].ip_check = 0 /\ pkthdr[i].udp_check = 0

C13_Witness ==
  /\ last_op = "tx_burst" /\ kTesting /\ num_pkts = 2
  /\ tx_burst_arr[0].drop /\ pkthdr[0].dst_ip = 0
  /\ ~tx_burst_arr[1].drop /\ pkthdr[1].dst_ip = 10
  /\ pkthdr[1].tot_len # 0 /\ pkthdr[1].udp_len # 0

(* A step made by tx_flush. *)
TxFlushStep == last_op' = "tx_flush" /\ nic_cnt' = nic_cnt

(* C14: tx_flush, called at any point, changes no state of the transport
   and makes no hardware submission; whenever tx_burst has returned, the
   sends handed to it have been submitted. *)
C14_TxFlushNoOp ==
  /\ [][ TxFlushStep => UNCHANGED <<cfgVars, pc, txVars, rxVars, prVars>> ]_vars
  /\ []((pc = "idle" /\ num_pkts > 0)
          => (hw_send_posts = 1 /\ hw_send_list = UpTo(num_pkts)
              /\ send_ret = 0))

C14_Witness ==
  /\ last_op = "tx_flush" /\ pc = "idle" /\ num_pkts = 1
  /\ hw_send_list = <<0>> /\ recvs_to_post > 0
  /\ recv_backlog > 0 /\ mp_sge_idx = 1

(* C15: in direct-completion mode every hardware post of post_recvs hands
   over the special work request, with the sentinel identifier and the
   whole accumulated pending count in num_sge; a call that returns leaves
   the pending counter at 0; the normal (compatibility) path is never taken,
   and post_recvs changes neither the receive head nor a link of the
   receive descriptor ring. *)
C15_FastPathOnly ==
  /\ [](~kDumb => hw_recv_wr.kind \in {"none", "fast"})
  /\ [][ (~kDumb /\ PostRecvsStep)
         => /\ UNCHANGED <<recv_head, recv_wr>>
            /\ hw_recv_posts' = 1 =>
                 /\ hw_recv_wr'.kind = "fast"
                 /\ hw_recv_wr'.wr_id = 3185
                 /\ hw_recv_wr'.num_sge = recvs_to_post + num_recvs'
                 /\ pc' = "idle" => recvs_to_post' = 0 ]_vars

C15_Witness ==
  /\ ~kDumb /\ pc = "idle" /\ last_op = "post_recvs" /\ hw_recv_posts = 1
  /\ hw_recv_wr.kind = "fast" /\ hw_recv_wr.num_sge > num_recvs
  /\ num_recvs > 0 /\ recvs_to_post = 0 /\ recv_head = 0

(* The cnt ring indices from head on, wrapping at the ring end. *)
RingRange(head, cnt) == [j \in 1..cnt |-> (head + (j - 1)) % kRQDepth]

(* What the compatibility path does with cnt descriptors: the list handed
   over is the range of cnt entries from the head, ended at its last entry,
   with every index inside the ring; a call that returns has closed the ring
   again, moved the head by cnt modulo the ring depth and reset the pending
   counter. *)
NormalPostOf(cnt) ==
  /\ hw_recv_wr'.list = RingRange(recv_head, cnt)
  /\ \A j \in DOMAIN hw_recv_wr'.list : hw_recv_wr'.list[j] \in 0..(kRQDepth - 1)
  /\ pc' = "idle" =>
       /\ recv_wr' = [i \in 0..(kRQDepth - 1) |-> [next |-> (i + 1) % kRQDepth]]
       /\ recv_head' = (recv_head + cnt) % kRQDepth
       /\ recvs_to_post' = 0

NormalPostStep ==
  PostRecvsStep /\ hw_recv_posts' = 1 /\ hw_recv_wr'.kind = "normal"

(* C16 as stated: a post on the compatibility path hands over the range of
   num_recvs descriptors from the head, wrapping at the ring end and ended at
   its last entry; the ring is closed again after the post, the head moves by
   num_recvs modulo the ring depth, the pending counter is 0, and every index
   stays inside the ring. *)
C16_CompatPostsNumRecvs ==
  [][ NormalPostStep => NormalPostOf(num_recvs') ]_vars

(* C16, amended: the same with the accumulated pending count (the counter
   after num_recvs was added to it) in the place of num_recvs. *)
C16_CompatPostsPending ==
  [][ NormalPostStep => NormalPostOf(recvs_to_post + num_recvs') ]_vars

C16_Witness ==
  /\ ~kDumb /\ pc = "idle" /\ last_op = "post_recvs" /\ hw_recv_posts = 1
  /\ hw_recv_wr.kind = "normal" /\ hw_recv_wr.list = <<3, 0>>
  /\ num_recvs = 1 /\ recv_head = 1 /\ recvs_to_post = 0
  /\ recv_wr[0].next = 1

(* The receive buffers the hardware was given by the post of this step:
   one stride unit for a multi-packet buffer, the encoded count for the
   special work request, the length of the list on the normal path. *)
HandedBack(posts, wr) ==
  IF posts = 0 THEN 0
  ELSE IF wr.kind = "mp" THEN kStridesPerWQE * wr.num
  ELSE IF wr.kind = "fast" THEN wr.num_sge
  ELSE Len(wr.list)

(* A call of post_recvs that returned without a failed submission. *)
PostRecvsOk ==
  PostRecvsStep /\ pc' = "idle" /\ (hw_recv_posts' = 1 => recv_ret' = 0)

(* C17: receive buffers are conserved.  The pending counter starts at 0, and
   every successful call of post_recvs leaves (buffers handed to the
   hardware by the call) + (pending counter after it) equal to (pending
   counter before it) + num_recvs, so that over any sequence of successful
   calls the buffers handed back plus the pending counter equal the sum of
   the num_recvs arguments; the pending counter is never negative. *)
C17_BuffersConserved ==
  /\ recvs_to_post = 0
  /\ [](recvs_to_post >= 0)
  /\ [][ PostRecvsOk
         => HandedBack(hw_recv_posts', hw_recv_wr') + recvs_to_post'
              = recvs_to_post + num_recvs' ]_vars

C17_Witness ==
  /\ kDumb /\ pc = "idle" /\ last_op = "post_recvs" /\ hw_recv_posts = 1
  /\ recv_ret = 0 /\ hw_recv_wr.kind = "mp" /\ num_recvs = kStridesPerWQE + 1
  /\ recvs_to_post = 2

(* The multi-packet buffers are used in the order of the pool: the first
   post uses buffer 0, a post uses the buffer the index names and moves the
   index to the next buffer of the pool, and a call that does not post
   leaves the index alone, so the k-th post uses buffer k mod kRQDepth. *)
MpBuffersInPoolOrder ==
  /\ mp_sge_idx = 0
  /\ [](mp_sge_idx \in 0..(kRQDepth - 1))
  /\ [][ (kDumb /\ PostRecvsStep)
         => IF hw_recv_posts' = 1
              THEN /\ hw_recv_wr' = [kind |-> "mp", sge |-> mp_sge_idx, num |-> 1]
                   /\ pc' = "idle" => mp_sge_idx' = (mp_sge_idx + 1) % kRQDepth
              ELSE mp_sge_idx' = mp_sge_idx ]_vars

(* C18 as stated: in striding mode the pending counter is below one stride
   unit whenever post_recvs has returned, whatever num_recvs (up to the ring
   capacity) the calls were given, and the k-th post uses buffer k mod pool
   size. *)
C18_NoFullStrideLeft ==
  /\ []((kDumb /\ pc = "idle") => recvs_to_post < kStridesPerWQE)
  /\ MpBuffersInPoolOrder

(* C18, amended: the pending counter starts below one stride unit and a
   call with num_recvs of at most one stride unit that returns keeps it
   below one stride unit, so it is below one stride unit after every
   sequence of such calls; the k-th post uses buffer k mod pool size. *)
C18_NoFullStrideLeftSmallCalls ==
  /\ recvs_to_post < kStridesPerWQE
  /\ [][ ( /\ kDumb /\ PostRecvsStep /\ pc' = "idle"
           /\ recvs_to_post < kStridesPerWQE
           /\ num_recvs' <= kStridesPerWQE )
         => recvs_to_post' < kStridesPerWQE ]_vars
  /\ MpBuffersInPoolOrder

C18_Witness ==
  /\ kDumb /\ pc = "idle" /\ last_op = "post_recvs" /\ hw_recv_posts = 1
  /\ num_recvs = kStridesPerWQE /\ recvs_to_post = 1
  /\ hw_recv_wr = [kind |-> "mp", sge |-> kRQDepth - 1, num |-> 1]
  /\ mp_sge_idx = 0

(* C19: in emulated mode, over any sequence of rx_burst calls: the backlog
   and the head start at 0; every call leaves (count returned) + (backlog
   after) equal to (backlog before) + (delta, if the poll was accepted, that
   is 0 < delta < ring size), so the counts returned so far plus the backlog
   equal the sum of the accepted deltas; every call moves the head by the
   count returned modulo the ring size, so the head is (initial head + counts
   returned so far) mod ring size; the head stays inside [0, ring size) and
   the counter-slot index inside [0, completion-queue depth); and the counts
   returned so far never exceed the receives the NIC has completed: what the
   NIC completed and rx_burst has not returned is the backlog plus the NIC's
   progress since the last accepted snapshot, never below 0. *)
C19_EmulatedCounters ==
  /\ recv_backlog = 0 /\ recv_head = 0
  /\ [][ (kDumb /\ RxBurstStep)
         => LET accepted == IF 0 < rx_delta' /\ rx_delta' < kNumRxRingEntries
                              THEN rx_delta' ELSE 0
            IN /\ rx_ret' + recv_backlog' = recv_backlog + accepted
               /\ recv_head' = (recv_head + rx_ret') % kNumRxRingEntries
               /\ nic_unret' = nic_unret - rx_ret' ]_vars
  /\ [](kDumb =>
          /\ recv_head \in 0..(kNumRxRingEntries - 1)
          /\ cqe_idx \in 0..(kRecvCQDepth - 1)
          /\ recv_backlog >= 0
          /\ nic_unret >= 0
          /\ nic_unret = recv_backlog
               + ((nic_cnt - prev_snapshot + kNumRxRingEntries)
                    % kNumRxRingEntries))

C19_Witness ==
  /\ kDumb /\ last_op = "rx_burst" /\ rx_ret = kPostlist /\ rx_delta > 0
  /\ recv_head = 1 /\ cqe_idx = 0
  /\ recv_backlog > 0 /\ nic_unret > recv_backlog

====
